---- MODULE Spec2Model ----
(***************************************************************************)
(* Model of the response parser of src/index.js: the try/catch block of    *)
(* handleSubmit (lines 76-96) that decodes the model's reply as JSON,      *)
(* optionally from a fenced block, and the line scanner extractSection     *)
(* (lines 106-136) that it falls back to.                                  *)
(*                                                                         *)
(* Three specifications share the variables.  Spec runs one reply through  *)
(* lines 76-96.  SpecScan runs one call of extractSection an iteration of  *)
(* its loop at a time.  SpecSubmit is the component: the two inputs, the   *)
(* reset button and handleSubmit from the validation of line 15 to the     *)
(* finally block, with the promises of fetch and response.json() settling  *)
(* in every way; FairSubmit adds the fairness of its steps.                *)
(*                                                                         *)
(* A JavaScript string is modelled as a sequence of chunks.  A chunk is    *)
(* either one of the characters the code looks at (newline, space, the     *)
(* JSON punctuation, ':' and '#'), the triple backtick, or a run of other  *)
(* characters (a word or a phrase) that contains none of them.             *)
(***************************************************************************)
EXTENDS Integers, Sequences, FiniteSets, TLC

VARIABLES content, pc, parsedContent, parseError, generatedContent

\* one call of extractSection, line by line: its arguments, its locals
\* (i, section, inSection and whether the loop was left by break), its
\* position and the value it returns
VARIABLES scanLines, scanKeywords, scanSt, scanPc, scanResult

\* the component's state (lines 6-10) and the environment of handleSubmit: the
\* key of the build, the number of calls of handleSubmit, the number of
\* requests sent, the message of the error on its way to the catch block of
\* line 97
VARIABLES question, resolutionDate, loading, error, apiKey, submits, fetches,
          thrown

scanVars == <<scanLines, scanKeywords, scanSt, scanPc, scanResult>>

submitVars ==
    <<question, resolutionDate, loading, error, apiKey, submits, fetches, thrown>>

vars == <<content, pc, parsedContent, parseError, generatedContent,
          scanVars, submitVars>>

-----------------------------------------------------------------------------
(* Chunks *)

NL == "\n"
SP == " "
\* three backtick characters in a row
FENCE == "<fence>"
LBRACE == "{"
RBRACE == "}"
LBRACKET == "["
RBRACKET == "]"
COLON == ":"
HASH == "#"
COMMA == ","
QUOTE == "\""

\* what \s of the regular expression, String.prototype.trim and JSON.parse skip
Whitespace == {SP, NL}

\* String.prototype.toLowerCase on one chunk
toLowerCase(c) ==
    CASE c = "Resolution Criteria" -> "resolution criteria"
      [] c = "Description" -> "description"
      [] c = "Edge Cases" -> "edge cases"
      [] c = "resolutionCriteria" -> "resolutioncriteria"
      [] c = "edgeCases" -> "edgecases"
      [] c = "In all cases it resolves" -> "in all cases it resolves"
      [] c = "Note" -> "note"
      [] c = "Market resolves YES if X happens." -> "market resolves yes if x happens."
      [] c = "This market tracks X." -> "this market tracks x."
      [] c = "Ambiguous if Y." -> "ambiguous if y."
      [] c = "json" -> "json"
      [] c = "source" -> "source"
      [] c = "X" -> "x"
      [] c = "Y" -> "y"
      [] c = "Z" -> "z"
      [] OTHER -> c

\* the keywords that occur in a chunk as a substring (case-sensitively, as
\* String.prototype.includes compares)
KeywordsIn(c) ==
    CASE c = "resolution criteria" -> {"resolution", "criteria"}
      [] c = "resolutioncriteria" -> {"resolution", "criteria"}
      [] c = "resolutionCriteria" -> {"resolution"}
      [] c = "description" -> {"description"}
      [] c = "edge cases" -> {"edge", "cases"}
      [] c = "edgecases" -> {"edge", "cases"}
      [] c = "edgeCases" -> {"edge"}
      [] c = "In all cases it resolves" -> {"cases"}
      [] c = "in all cases it resolves" -> {"cases"}
      [] OTHER -> {}

\* String.prototype.toLowerCase on a string
lower(s) == [k \in 1..Len(s) |-> toLowerCase(s[k])]

\* String.prototype.includes(x), x a keyword or a single character
includes(s, x) == \E k \in 1..Len(s) : s[k] = x \/ x \in KeywordsIn(s[k])

RECURSIVE skipLeft(_, _)
\* the first index >= i of s that holds no whitespace (Len(s)+1 if none)
skipLeft(s, i) ==
    IF i <= Len(s) /\ s[i] \in Whitespace THEN skipLeft(s, i + 1) ELSE i

RECURSIVE skipRight(_, _)
\* the last index <= j of s that holds no whitespace (0 if none)
skipRight(s, j) ==
    IF j >= 1 /\ s[j] \in Whitespace THEN skipRight(s, j - 1) ELSE j

\* String.prototype.trim
trim(s) == SubSeq(s, skipLeft(s, 1), skipRight(s, Len(s)))

RECURSIVE splitFrom(_, _, _, _)
splitFrom(s, i, cur, acc) ==
    IF i > Len(s) THEN Append(acc, cur)
    ELSE IF s[i] = NL THEN splitFrom(s, i + 1, <<>>, Append(acc, cur))
    ELSE splitFrom(s, i + 1, Append(cur, s[i]), acc)

\* content.split('\n')
split(s) == splitFrom(s, 1, <<>>, <<>>)

RECURSIVE join(_)
\* section.join('\n')
join(ls) ==
    IF Len(ls) = 0 THEN <<>>
    ELSE IF Len(ls) = 1 THEN ls[1]
    ELSE ls[1] \o <<NL>> \o join(Tail(ls))

-----------------------------------------------------------------------------
(* extractSection, src/index.js lines 106-136 *)

NotFound == <<"Content not found in expected format">>

\* the header test without its keyword: any line with ':' or '#' is a header
isHeaderAnyKeyword(line, keywords) ==
    includes(line, COLON) \/ includes(line, HASH)

\* the header test that takes ':' only for the mark of a header
isHeaderColonOnly(line, keywords) ==
    \E keyword \in keywords : includes(line, keyword) /\ includes(line, COLON)

\* line 112: the header test on the lower-cased line
isHeader(line, keywords) ==
    \E keyword \in keywords :
        includes(line, keyword) /\ (includes(line, COLON) \/ includes(line, HASH))

RECURSIVE nextNonEmptyFrom(_, _)
\* lines 119-122; n is the code's 0-based index, lines[n] is lines[n + 1] here
nextNonEmptyFrom(lines, n) ==
    IF n < Len(lines) /\ trim(lines[n + 1]) = <<>>
    THEN nextNonEmptyFrom(lines, n + 1)
    ELSE n

\* the lookahead with the test for ':' left out: only '#' ends a section
breaksAtHashOnly(lines, i, section) ==
    LET line == lower(lines[i + 1])
        nextNonEmpty == nextNonEmptyFrom(lines, i + 1)
    IN  /\ trim(line) = <<>>
        /\ Len(section) > 0
        /\ nextNonEmpty < Len(lines)
        /\ includes(lower(lines[nextNonEmpty + 1]), HASH)

\* lines 117-127: the blank-line lookahead that leaves the loop
breaksAt(lines, i, section) ==
    LET line == lower(lines[i + 1])
        nextNonEmpty == nextNonEmptyFrom(lines, i + 1)
    IN  /\ trim(line) = <<>>
        /\ Len(section) > 0
        /\ nextNonEmpty < Len(lines)
        /\ \/ includes(lower(lines[nextNonEmpty + 1]), COLON)
           \/ includes(lower(lines[nextNonEmpty + 1]), HASH)

\* the loop body pushing the lower-cased copy of the line (line 111) in place
\* of lines[i]
scanStepLowerCased(lines, keywords, st) ==
    LET line == lower(lines[st.i + 1]) IN
    IF isHeader(line, keywords)
    THEN [st EXCEPT !.i = st.i + 1, !.inSection = TRUE]
    ELSE IF st.inSection
    THEN IF breaksAt(lines, st.i, st.section)
         THEN [st EXCEPT !.stopped = TRUE]
         ELSE [st EXCEPT !.i = st.i + 1, !.section = Append(st.section, line)]
    ELSE [st EXCEPT !.i = st.i + 1]

\* the loop body that meets a header and does not move on to the next line
scanStepStuck(lines, keywords, st) ==
    LET line == lower(lines[st.i + 1]) IN
    IF isHeader(line, keywords)
    THEN [st EXCEPT !.inSection = TRUE]
    ELSE IF st.inSection
    THEN IF breaksAt(lines, st.i, st.section)
         THEN [st EXCEPT !.stopped = TRUE]
         ELSE [st EXCEPT !.i = st.i + 1,
                         !.section = Append(st.section, lines[st.i + 1])]
    ELSE [st EXCEPT !.i = st.i + 1]

\* the loop body with the header test made only while no section is open: a
\* second header line of the same keywords is collected
scanStepHeaderOnce(lines, keywords, st) ==
    LET line == lower(lines[st.i + 1]) IN
    IF ~st.inSection /\ isHeader(line, keywords)
    THEN [st EXCEPT !.i = st.i + 1, !.inSection = TRUE]
    ELSE IF st.inSection
    THEN IF breaksAt(lines, st.i, st.section)
         THEN [st EXCEPT !.stopped = TRUE]
         ELSE [st EXCEPT !.i = st.i + 1,
                         !.section = Append(st.section, lines[st.i + 1])]
    ELSE [st EXCEPT !.i = st.i + 1]

\* one iteration of the for loop (lines 111-132) at the 0-based index st.i
scanStep(lines, keywords, st) ==
    LET line == lower(lines[st.i + 1]) IN
    IF isHeader(line, keywords)
    THEN [st EXCEPT !.i = st.i + 1, !.inSection = TRUE]
    ELSE IF st.inSection
    THEN IF breaksAt(lines, st.i, st.section)
         THEN [st EXCEPT !.stopped = TRUE]
         ELSE [st EXCEPT !.i = st.i + 1,
                         !.section = Append(st.section, lines[st.i + 1])]
    ELSE [st EXCEPT !.i = st.i + 1]

RECURSIVE scan(_, _, _)
\* the for loop of line 110, run to its end
scan(lines, keywords, st) ==
    IF st.stopped \/ st.i >= Len(lines) THEN st
    ELSE scan(lines, keywords, scanStep(lines, keywords, st))

\* lines 107-108
scanInit == [i |-> 0, section |-> <<>>, inSection |-> FALSE, stopped |-> FALSE]

\* extractSection without the sentinel of line 135: an empty section is returned
extractSectionNoSentinel(lines, keywords) ==
    trim(join(scan(lines, keywords, scanInit).section))

\* lines 106-136
extractSection(lines, keywords) ==
    LET text == trim(join(scan(lines, keywords, scanInit).section))
    IN  IF text = <<>> THEN NotFound ELSE text

-----------------------------------------------------------------------------
(* JavaScript values: what JSON.parse returns and what handleSubmit builds *)

Undefined == [type |-> "undefined", v |-> <<>>]
Null == [type |-> "null", v |-> <<>>]
Str(s) == [type |-> "string", v |-> s]
Num(c) == [type |-> "number", v |-> <<c>>]
Arr(elems) == [type |-> "array", v |-> elems]
\* an object: its properties in insertion order, each [k |-> name, val |-> value]
Obj(props) == [type |-> "object", v |-> props]

RECURSIVE lookup(_, _, _)
lookup(props, k, n) ==
    IF n = 0 THEN Undefined
    ELSE IF props[n].k = k THEN props[n].val
    ELSE lookup(props, k, n - 1)

\* the property access value.k (lines 197, 204, 211), the last duplicate winning
Get(value, k) ==
    IF value.type = "object" THEN lookup(value.v, k, Len(value.v)) ELSE Undefined

-----------------------------------------------------------------------------
(* JSON.parse, src/index.js lines 82 and 84 *)

\* the number literals of the alphabet
Digits == {"1", "2"}

ParseFail == [ok |-> FALSE, val |-> Undefined, next |-> 0]
ParseOk(value, n) == [ok |-> TRUE, val |-> value, next |-> n]

RECURSIVE closingQuote(_, _)
\* the index of the quote that closes the string opened before i (0 if the
\* string is not closed, or holds a line break, which JSON does not allow)
closingQuote(s, i) ==
    IF i > Len(s) \/ s[i] = NL THEN 0
    ELSE IF s[i] = QUOTE THEN i
    ELSE closingQuote(s, i + 1)

\* a string literal whose opening quote is s[i]
parseString(s, i) ==
    LET close == closingQuote(s, i + 1) IN
    IF close = 0 THEN ParseFail
    ELSE ParseOk(Str(SubSeq(s, i + 1, close - 1)), close + 1)

RECURSIVE parseValue(_, _)
RECURSIVE parseMembers(_, _, _)
RECURSIVE parseElements(_, _, _)

\* the members of an object after its opening brace or a comma
parseMembers(s, i, props) ==
    LET p == skipLeft(s, i) IN
    IF p > Len(s) \/ s[p] # QUOTE THEN ParseFail
    ELSE LET key == parseString(s, p) IN
    IF ~key.ok THEN ParseFail
    ELSE LET c == skipLeft(s, key.next) IN
    IF c > Len(s) \/ s[c] # COLON THEN ParseFail
    ELSE LET value == parseValue(s, c + 1) IN
    IF ~value.ok THEN ParseFail
    ELSE LET e == skipLeft(s, value.next)
             more == Append(props, [k |-> key.val.v, val |-> value.val])
         IN
    IF e > Len(s) THEN ParseFail
    ELSE IF s[e] = RBRACE THEN ParseOk(Obj(more), e + 1)
    ELSE IF s[e] = COMMA THEN parseMembers(s, e + 1, more)
    ELSE ParseFail

\* the elements of an array after its opening bracket or a comma
parseElements(s, i, elems) ==
    LET value == parseValue(s, i) IN
    IF ~value.ok THEN ParseFail
    ELSE LET e == skipLeft(s, value.next)
             more == Append(elems, value.val)
         IN
    IF e > Len(s) THEN ParseFail
    ELSE IF s[e] = RBRACKET THEN ParseOk(Arr(more), e + 1)
    ELSE IF s[e] = COMMA THEN parseElements(s, e + 1, more)
    ELSE ParseFail

\* one JSON value starting at or after index i
parseValue(s, i) ==
    LET p == skipLeft(s, i) IN
    IF p > Len(s) THEN ParseFail
    ELSE IF s[p] = LBRACE
    THEN LET q == skipLeft(s, p + 1) IN
         IF q <= Len(s) /\ s[q] = RBRACE THEN ParseOk(Obj(<<>>), q + 1)
         ELSE parseMembers(s, p + 1, <<>>)
    ELSE IF s[p] = LBRACKET
    THEN LET q == skipLeft(s, p + 1) IN
         IF q <= Len(s) /\ s[q] = RBRACKET THEN ParseOk(Arr(<<>>), q + 1)
         ELSE parseElements(s, p + 1, <<>>)
    ELSE IF s[p] = QUOTE THEN parseString(s, p)
    ELSE IF s[p] \in Digits THEN ParseOk(Num(s[p]), p + 1)
    ELSE IF s[p] = "null" THEN ParseOk(Null, p + 1)
    ELSE ParseFail

\* JSON.parse(s): ok is FALSE where JSON.parse throws a SyntaxError
JSONparse(s) ==
    LET r == parseValue(s, 1) IN
    IF r.ok /\ skipLeft(s, r.next) > Len(s) THEN [ok |-> TRUE, val |-> r.val]
    ELSE [ok |-> FALSE, val |-> Undefined]

-----------------------------------------------------------------------------
(* content.match(/<fence>(?:json)?\s*(\{[\s\S]*\})\s*<fence>/), line 80 *)

\* where the opening brace must stand for a match that starts at index i
braceAfter(s, i) ==
    skipLeft(s, IF i + 1 <= Len(s) /\ s[i + 1] = "json" THEN i + 2 ELSE i + 1)

\* the closing braces that a closing fence follows, after optional whitespace
closers(s, p) ==
    {q \in (p + 1)..Len(s) :
        /\ s[q] = RBRACE
        /\ LET r == skipLeft(s, q + 1) IN r <= Len(s) /\ s[r] = FENCE}

\* the regular expression matches with its first character at index i
matchesAt(s, i) ==
    /\ s[i] = FENCE
    /\ LET p == braceAfter(s, i) IN
        p <= Len(s) /\ s[p] = LBRACE /\ closers(s, p) # {}

Max(S) == CHOOSE x \in S : \A y \in S : y <= x
Min(S) == CHOOSE x \in S : \A y \in S : x <= y

\* [\s\S]* is greedy: of the closing braces the last one ends the capture
captureAt(s, i) ==
    LET p == braceAfter(s, i) IN SubSeq(s, p, Max(closers(s, p)))

\* jsonMatch: the leftmost match and its capture group 1
jsonMatch(s) ==
    LET starts == {i \in 1..Len(s) : matchesAt(s, i)} IN
    IF starts = {} THEN [found |-> FALSE, group1 |-> <<>>]
    ELSE [found |-> TRUE, group1 |-> captureAt(s, Min(starts))]

-----------------------------------------------------------------------------
(* The try/catch of handleSubmit, src/index.js lines 76-96 *)

\* lines 81-85: the text that is handed to JSON.parse
decodedText(s) ==
    LET m == jsonMatch(s) IN IF m.found THEN m.group1 ELSE s

\* lines 80-85: the try block; ok is FALSE where it throws
tryParse(s) == JSONparse(decodedText(s))

\* the catch block keeping the description of a reply that holds the text
\* "description": a record mixed from two sources
fallbackRecordMixed(s) ==
    LET lines == split(s) IN
    Obj(<< [k |-> <<"resolutionCriteria">>,
            val |-> Str(extractSection(lines, {"resolution", "criteria"}))],
           [k |-> <<"description">>,
            val |-> IF includes(s, "description") THEN Str(s)
                    ELSE Str(extractSection(lines, {"description"}))],
           [k |-> <<"edgeCases">>,
            val |-> Str(extractSection(lines, {"edge", "cases"}))] >>)

\* lines 88-93: the record the catch block builds
fallbackRecord(s) ==
    LET lines == split(s) IN
    Obj(<< [k |-> <<"resolutionCriteria">>,
            val |-> Str(extractSection(lines, {"resolution", "criteria"}))],
           [k |-> <<"description">>,
            val |-> Str(extractSection(lines, {"description"}))],
           [k |-> <<"edgeCases">>,
            val |-> Str(extractSection(lines, {"edge", "cases"}))] >>)


\* lines 76-94: the value of parsedContent at line 96
parseModelResponse(s) ==
    LET r == tryParse(s) IN IF r.ok THEN r.val ELSE fallbackRecord(s)

-----------------------------------------------------------------------------
(* The replies the model is run on: content of line 74 *)

\* the three properties the prompt asks for (lines 57-59)
RequiredKeys == {<<"resolutionCriteria">>, <<"description">>, <<"edgeCases">>}

KeyOrder == << <<"resolutionCriteria">>, <<"description">>, <<"edgeCases">> >>

\* the keywords handleSubmit passes for each property (lines 90-92)
KeywordsOf(k) ==
    CASE k = <<"resolutionCriteria">> -> {"resolution", "criteria"}
      [] k = <<"description">> -> {"description"}
      [] k = <<"edgeCases">> -> {"edge", "cases"}

Title(k) ==
    CASE k = <<"resolutionCriteria">> -> "Resolution Criteria"
      [] k = <<"description">> -> "Description"
      [] k = <<"edgeCases">> -> "Edge Cases"

Sentence(k) ==
    CASE k = <<"resolutionCriteria">> -> "Market resolves YES if X happens."
      [] k = <<"description">> -> "This market tracks X."
      [] k = <<"edgeCases">> -> "Ambiguous if Y."
      [] OTHER -> "X"

\* bounds of the replies
MaxBody == 2
MaxGap == 2
MaxLines == 4
MaxBlocks == 1

RECURSIVE SeqsUpTo(_, _)
\* the sequences over S of length 0..n
SeqsUpTo(S, n) ==
    IF n = 0 THEN {<<>>}
    ELSE LET shorter == SeqsUpTo(S, n - 1) IN
         shorter \cup {Append(q, x) : q \in {r \in shorter : Len(r) = n - 1}, x \in S}

RECURSIVE Repeat(_, _)
Repeat(s, n) == IF n = 0 THEN <<>> ELSE s \o Repeat(s, n - 1)

\* -- plain-text replies made of three headed sections --

HeaderStyles == {"colon", "hash"}

HeaderLine(k, style) ==
    IF style = "colon" THEN <<Title(k), COLON>> ELSE <<HASH, SP, Title(k)>>

\* a body line of section k: its own sentence, a remark with a colon, or a
\* sentence that holds a keyword and no colon
BodyLineKinds == {"own", "note", "keyword"}

BodyLine(k, kind) ==
    CASE kind = "own" -> <<Sentence(k)>>
      [] kind = "note" -> <<"Note", COLON, SP, Sentence(k)>>
      [] kind = "keyword" -> <<"In all cases it resolves">>

BodyShapes == SeqsUpTo(BodyLineKinds, MaxBody) \ {<<>>}

BodyLines(k, shape) == [n \in 1..Len(shape) |-> BodyLine(k, shape[n])]

Orders == {o \in [1..3 -> RequiredKeys] : \A a, b \in 1..3 : a # b => o[a] # o[b]}

\* the lines of section k, then gap blank lines
SectionLines(k, style, shape, gap) ==
    <<HeaderLine(k, style)>> \o BodyLines(k, shape) \o [n \in 1..gap |-> <<>>]

SectionsText(order, style, shape, gap) ==
    join(SectionLines(order[1], style, shape, gap)
         \o SectionLines(order[2], style, shape, gap)
         \o SectionLines(order[3], style, shape, 0))

SectionReplies ==
    {SectionsText(o, st, sh, g) :
        o \in Orders, st \in HeaderStyles, sh \in BodyShapes, g \in 0..MaxGap}

\* -- plain-text replies made of any lines --

LineSet ==
    { <<>>,
      <<"Description", COLON>>,
      <<"Description", COLON, SP, "X">>,
      <<HASH, SP, "Edge Cases">>,
      <<"X">>,
      <<"Note", COLON, SP, "Y">>,
      <<"In all cases it resolves">> }

LineReplies == {join(ls) : ls \in SeqsUpTo(LineSet, MaxLines)}

\* -- replies that hold JSON --

StringText(c) == <<QUOTE, c, QUOTE>>

ValueSchemes == {"text", "mixed", "tricky"}

\* the text of the value of property k
ValueText(k, scheme) ==
    CASE scheme = "text" -> StringText(Sentence(k))
      [] scheme = "mixed" ->
            (CASE k = <<"resolutionCriteria">> -> <<"1">>
               [] k = <<"description">> -> <<"null">>
               [] k = <<"edgeCases">> -> <<LBRACKET>> \o StringText("X") \o <<RBRACKET>>
               [] OTHER -> <<LBRACE, RBRACE>>)
      [] scheme = "tricky" ->
            (CASE k = <<"resolutionCriteria">> ->
                    <<QUOTE, FENCE, LBRACE, RBRACE, FENCE, QUOTE>>
               [] k = <<"description">> -> <<QUOTE, "Note", COLON, SP, "Y", QUOTE>>
               [] k = <<"edgeCases">> ->
                    <<LBRACE>> \o StringText("description") \o <<COLON>>
                    \o StringText("X") \o <<RBRACE>>
               [] OTHER -> StringText("Edge Cases"))

MemberText(k, scheme) == StringText(k[1]) \o <<COLON, SP>> \o ValueText(k, scheme)

ExtraKey == <<"source">>

AllKeys == KeyOrder \o <<ExtraKey>>

RECURSIVE MembersText(_, _, _, _)
\* the members named by keys, in the order of AllKeys from index n on
MembersText(keys, scheme, sep, n) ==
    IF n > Len(AllKeys) THEN <<>>
    ELSE IF AllKeys[n] \notin keys THEN MembersText(keys, scheme, sep, n + 1)
    ELSE LET rest == MembersText(keys, scheme, sep, n + 1) IN
         MemberText(AllKeys[n], scheme)
         \o (IF rest = <<>> THEN <<>> ELSE <<COMMA>> \o sep \o rest)

\* an object with the properties keys, on one line or one property per line
ObjectText(keys, scheme, pretty) ==
    LET sep == IF pretty THEN <<NL, SP>> ELSE <<>> IN
    <<LBRACE>> \o sep \o MembersText(keys, scheme, sep, 1)
    \o (IF pretty THEN <<NL>> ELSE <<>>) \o <<RBRACE>>

ObjectTexts ==
    {ObjectText(keys, scheme, FALSE) :
        keys \in SUBSET (RequiredKeys \cup {ExtraKey}), scheme \in ValueSchemes}
    \cup {ObjectText(keys, "text", TRUE) : keys \in SUBSET (RequiredKeys \cup {ExtraKey})}

OtherJsonTexts ==
    { <<LBRACKET, RBRACKET>>,
      <<LBRACKET>> \o StringText("X") \o <<COMMA, "1", RBRACKET>>,
      <<"1">>,
      <<"null">>,
      StringText("X"),
      <<LBRACE>> \o MemberText(<<"description">>, "text"),
      <<LBRACE, "X", RBRACE>> }

Prefixes ==
    { <<>>,
      <<"X", NL>>,
      <<"Note", COLON, SP, LBRACE, "X", RBRACE, NL>>,
      <<FENCE, SP, "X", NL>> }

\* a further fenced block after the first
FurtherBlock == <<NL, FENCE, "json", NL, LBRACE, RBRACE, NL, FENCE>>

Suffixes ==
    { <<>>, <<NL, "Y">>, <<NL, "Y", SP, RBRACE>> }
    \cup {Repeat(FurtherBlock, n) : n \in 1..MaxBlocks}

Fences == {"none", "json", "bare"}

Fenced(text, fence) ==
    CASE fence = "none" -> text
      [] fence = "json" -> <<FENCE, "json", NL>> \o text \o <<NL, FENCE>>
      [] fence = "bare" -> <<FENCE>> \o text \o <<FENCE>>

JsonReplies ==
    {pre \o Fenced(text, fence) \o suf :
        pre \in Prefixes, text \in ObjectTexts \cup OtherJsonTexts,
        fence \in Fences, suf \in Suffixes}

Replies == SectionReplies \cup LineReplies \cup JsonReplies

-----------------------------------------------------------------------------
(* The state machine: one reply run through lines 76-96 *)

\* no call of extractSection is open
ScanIdle ==
    /\ scanLines = <<>>
    /\ scanKeywords = {}
    /\ scanSt = scanInit
    /\ scanPc = "idle"
    /\ scanResult = <<>>

\* the component while handleSubmit holds a reply: lines 20-22 have run, the
\* key was there and one request was sent
Submitted ==
    /\ question = <<"Q">>
    /\ resolutionDate = <<"2030-01-01">>
    /\ loading = TRUE
    /\ error = Null
    /\ apiKey = TRUE
    /\ submits = 1
    /\ fetches = 1
    /\ thrown = <<>>

Init ==
    /\ content \in Replies
    /\ pc = "try"
    /\ parsedContent = Undefined
    /\ parseError = FALSE
    /\ generatedContent = Null
    /\ ScanIdle
    /\ Submitted

\* lines 78-85: the try block; a SyntaxError of JSON.parse leads to the catch
TryBlock ==
    /\ pc = "try"
    /\ LET r == tryParse(content) IN
        IF r.ok
        THEN /\ parsedContent' = r.val
             /\ parseError' = FALSE
             /\ pc' = "set"
        ELSE /\ parsedContent' = parsedContent
             /\ parseError' = TRUE
             /\ pc' = "catch"
    /\ UNCHANGED <<content, generatedContent>>
    /\ UNCHANGED <<scanVars, submitVars>>

\* lines 86-94: the catch block
CatchBlock ==
    /\ pc = "catch"
    /\ parsedContent' = fallbackRecord(content)
    /\ pc' = "set"
    /\ UNCHANGED <<content, parseError, generatedContent>>
    /\ UNCHANGED <<scanVars, submitVars>>

\* line 96
SetGeneratedContent ==
    /\ pc = "set"
    /\ generatedContent' = parsedContent
    /\ pc' = "done"
    /\ UNCHANGED <<content, parsedContent, parseError>>
    /\ UNCHANGED <<scanVars, submitVars>>

Next == TryBlock \/ CatchBlock \/ SetGeneratedContent

Spec == Init /\ [][Next]_vars

------------------------------------------------------------------------------
(* One call of extractSection, an iteration of its loop at a time *)

\* a call made by the catch block (lines 89-92) on the lines of a reply
InitScan ==
    /\ content \in LineReplies
    /\ pc = "catch"
    /\ parsedContent = Undefined
    /\ parseError = TRUE
    /\ generatedContent = Null
    /\ Submitted
    /\ scanLines = split(content)
    /\ scanKeywords \in {KeywordsOf(k) : k \in RequiredKeys}
    /\ scanSt = scanInit
    /\ scanPc = "loop"
    /\ scanResult = <<>>

\* lines 110-133: one iteration of the loop
ScanLine ==
    /\ scanPc = "loop"
    /\ ~scanSt.stopped
    /\ scanSt.i < Len(scanLines)
    /\ scanSt' = scanStep(scanLines, scanKeywords, scanSt)
    /\ UNCHANGED <<scanLines, scanKeywords, scanPc, scanResult>>
    /\ UNCHANGED <<content, pc, parsedContent, parseError, generatedContent,
                   submitVars>>

\* line 135, reached at the end of the lines or by the break of line 126
ScanReturn ==
    /\ scanPc = "loop"
    /\ scanSt.stopped \/ scanSt.i >= Len(scanLines)
    /\ scanResult' = IF trim(join(scanSt.section)) = <<>>
                     THEN NotFound
                     ELSE trim(join(scanSt.section))
    /\ scanPc' = "returned"
    /\ UNCHANGED <<scanLines, scanKeywords, scanSt>>
    /\ UNCHANGED <<content, pc, parsedContent, parseError, generatedContent,
                   submitVars>>

NextScan == ScanLine \/ ScanReturn

SpecScan == InitScan /\ [][NextScan]_vars


-----------------------------------------------------------------------------
(* The component: handleSubmit from the form to its finally block, the two
   inputs and the reset button *)

MaxSubmits == 2

Questions == {<<>>, <<SP>>, <<"Q">>}

Dates == {<<>>, <<"2030-01-01">>}

\* line 16
ValidationMessage == <<"Please fill in both the question and resolution date">>

\* line 27
NoKeyMessage == <<"OpenAI API key not configured.">>

\* line 70
FailedMessage == <<"Failed to generate content">>

\* line 98
DefaultMessage == <<"An error occurred while generating content">>

\* the messages of the errors fetch rejects with; the empty one stands for a
\* reason that has no message
FetchErrors == {<<"Failed to fetch">>, <<>>}

\* response.json() rejecting on a body that is not JSON
SyntaxErrorMessage == <<"Unexpected token">>

\* reading a property of undefined or null (lines 70, 74, 88)
TypeErrorMessage == <<"Cannot read properties">>

\* the bodies of a response that is not ok: an error with a message, an error
\* with none, no error property, null
ErrorBodies == {"message", "no message", "no error", "null"}

\* line 70 on such a body
ErrorBodyMessage(body) ==
    CASE body = "message" -> <<"Rate limit reached">>
      [] body = "no message" -> FailedMessage
      [] body = "no error" -> FailedMessage
      [] body = "null" -> TypeErrorMessage

\* the texts of data.choices[0].message.content: an object, fenced and bare,
\* an object that lacks properties, JSON that is no object, sections, prose
SubmitReplies ==
    { ObjectText(RequiredKeys, "text", FALSE),
      Fenced(ObjectText(RequiredKeys, "text", TRUE), "json"),
      ObjectText({<<"description">>}, "text", FALSE),
      <<"null">>,
      SectionsText(KeyOrder, "colon", <<"own">>, 1),
      <<"X">>,
      <<>> }

\* what {generatedContent && ...} of line 198 renders
Truthy(value) ==
    CASE value.type \in {"undefined", "null"} -> FALSE
      [] value.type = "string" -> value.v # <<>>
      [] value.type = "number" -> value.v # <<"0">>
      [] OTHER -> TRUE

\* line 15, negated
Valid == trim(question) # <<>> /\ resolutionDate # <<>>

\* the state after construction (lines 6-10), no call of handleSubmit open
InitSubmit ==
    /\ question = <<>>
    /\ resolutionDate = <<>>
    /\ loading = FALSE
    /\ generatedContent = Null
    /\ error = Null
    /\ apiKey \in BOOLEAN
    /\ submits = 0
    /\ fetches = 0
    /\ thrown = <<>>
    /\ content = <<>>
    /\ pc = "idle"
    /\ parsedContent = Undefined
    /\ parseError = FALSE
    /\ ScanIdle

\* line 155, the input being disabled while loading (line 158)
SetQuestion ==
    /\ pc = "idle"
    /\ ~loading
    /\ \E q \in Questions \ {question} : question' = q
    /\ UNCHANGED <<resolutionDate, loading, error, apiKey, submits, fetches,
                   thrown>>
    /\ UNCHANGED <<content, pc, parsedContent, parseError, generatedContent,
                   scanVars>>

\* line 170, the input being disabled while loading (line 172)
SetResolutionDate ==
    /\ pc = "idle"
    /\ ~loading
    /\ \E d \in Dates \ {resolutionDate} : resolutionDate' = d
    /\ UNCHANGED <<question, loading, error, apiKey, submits, fetches, thrown>>
    /\ UNCHANGED <<content, pc, parsedContent, parseError, generatedContent,
                   scanVars>>

\* lines 222-233: the button rendered with the generated content
Reset ==
    /\ pc = "idle"
    /\ Truthy(generatedContent)
    /\ generatedContent' = Null
    /\ question' = <<>>
    /\ resolutionDate' = <<>>
    /\ error' = Null
    /\ UNCHANGED <<loading, apiKey, submits, fetches, thrown>>
    /\ UNCHANGED <<content, pc, parsedContent, parseError, scanVars>>

\* the validation placed after lines 20-22: what was generated is cleared
SubmitInvalidClears ==
    /\ pc = "idle"
    /\ submits < MaxSubmits
    /\ ~Valid
    /\ submits' = submits + 1
    /\ error' = Str(ValidationMessage)
    /\ generatedContent' = Null
    /\ UNCHANGED <<question, resolutionDate, loading, apiKey, fetches, thrown>>
    /\ UNCHANGED <<content, pc, parsedContent, parseError, scanVars>>

\* lines 12-18: handleSubmit on inputs that fail the validation
SubmitInvalid ==
    /\ pc = "idle"
    /\ submits < MaxSubmits
    /\ ~Valid
    /\ submits' = submits + 1
    /\ error' = Str(ValidationMessage)
    /\ UNCHANGED <<question, resolutionDate, loading, apiKey, fetches, thrown>>
    /\ UNCHANGED <<content, pc, parsedContent, parseError, generatedContent,
                   scanVars>>

\* lines 12-22: handleSubmit on inputs that pass the validation, up to the try
SubmitValid ==
    /\ pc = "idle"
    /\ submits < MaxSubmits
    /\ Valid
    /\ submits' = submits + 1
    /\ loading' = TRUE
    /\ error' = Null
    /\ generatedContent' = Null
    /\ content' = <<>>
    /\ parsedContent' = Undefined
    /\ parseError' = FALSE
    /\ thrown' = <<>>
    /\ pc' = "key"
    /\ UNCHANGED <<question, resolutionDate, apiKey, fetches, scanVars>>

\* lines 25-31: the key is tested and the request is sent
CheckKey ==
    /\ pc = "key"
    /\ IF apiKey
       THEN /\ fetches' = fetches + 1
            /\ pc' = "fetch"
            /\ thrown' = thrown
       ELSE /\ fetches' = fetches
            /\ pc' = "thrown"
            /\ thrown' = NoKeyMessage
    /\ UNCHANGED <<question, resolutionDate, loading, error, apiKey, submits>>
    /\ UNCHANGED <<content, parsedContent, parseError, generatedContent,
                   scanVars>>

\* line 31: the promise of fetch rejects
FetchRejects ==
    /\ pc = "fetch"
    /\ \E m \in FetchErrors : thrown' = m
    /\ pc' = "thrown"
    /\ UNCHANGED <<question, resolutionDate, loading, error, apiKey, submits,
                   fetches>>
    /\ UNCHANGED <<content, parsedContent, parseError, generatedContent,
                   scanVars>>

\* lines 31 and 68: the promise of fetch resolves, response.ok is tested
FetchResolves ==
    /\ pc = "fetch"
    /\ \E ok \in BOOLEAN : pc' = IF ok THEN "json" ELSE "errorJson"
    /\ UNCHANGED <<content, parsedContent, parseError, generatedContent,
                   scanVars, submitVars>>

\* lines 69-70: the body of a response that is not ok settles
ErrorJsonSettles ==
    /\ pc = "errorJson"
    /\ \/ thrown' = SyntaxErrorMessage
       \/ \E body \in ErrorBodies : thrown' = ErrorBodyMessage(body)
    /\ pc' = "thrown"
    /\ UNCHANGED <<question, resolutionDate, loading, error, apiKey, submits,
                   fetches>>
    /\ UNCHANGED <<content, parsedContent, parseError, generatedContent,
                   scanVars>>

\* lines 73-74: the body of a response that is ok settles. It is not JSON, or
\* it has no choices[0].message, or its content is no string (content.match
\* throws at line 80 and content.split at line 88), or its content is a text
JsonSettles ==
    /\ pc = "json"
    /\ \/ /\ thrown' \in {SyntaxErrorMessage, TypeErrorMessage}
          /\ pc' = "thrown"
          /\ UNCHANGED <<content, parseError>>
       \/ /\ thrown' = TypeErrorMessage
          /\ pc' = "thrown"
          /\ parseError' = TRUE
          /\ UNCHANGED content
       \/ /\ \E c \in SubmitReplies : content' = c
          /\ pc' = "try"
          /\ UNCHANGED <<thrown, parseError>>
    /\ UNCHANGED <<question, resolutionDate, loading, error, apiKey, submits,
                   fetches>>
    /\ UNCHANGED <<parsedContent, generatedContent, scanVars>>

\* lines 97-99
OuterCatch ==
    /\ pc = "thrown"
    /\ error' = Str(IF thrown # <<>> THEN thrown ELSE DefaultMessage)
    /\ pc' = "finally"
    /\ UNCHANGED <<question, resolutionDate, loading, apiKey, submits, fetches,
                   thrown>>
    /\ UNCHANGED <<content, parsedContent, parseError, generatedContent,
                   scanVars>>

\* setLoading(false) as the last statement of the try block: not reached
\* when the catch block has run
FinallyInTry ==
    /\ pc \in {"done", "finally"}
    /\ loading' = IF pc = "done" THEN FALSE ELSE loading
    /\ pc' = "idle"
    /\ UNCHANGED <<question, resolutionDate, error, apiKey, submits, fetches,
                   thrown>>
    /\ UNCHANGED <<content, parsedContent, parseError, generatedContent,
                   scanVars>>

\* lines 100-102, after line 96 or after the catch block
Finally ==
    /\ pc \in {"done", "finally"}
    /\ loading' = FALSE
    /\ pc' = "idle"
    /\ UNCHANGED <<question, resolutionDate, error, apiKey, submits, fetches,
                   thrown>>
    /\ UNCHANGED <<content, parsedContent, parseError, generatedContent,
                   scanVars>>

\* what the user does
User == SetQuestion \/ SetResolutionDate \/ Reset \/ SubmitInvalid \/ SubmitValid

\* the statements of handleSubmit between two awaits
Handler ==
    \/ CheckKey
    \/ TryBlock
    \/ CatchBlock
    \/ SetGeneratedContent
    \/ OuterCatch
    \/ Finally

\* the promises of lines 31, 69 and 73 settling
Network == FetchRejects \/ FetchResolves \/ ErrorJsonSettles \/ JsonSettles

NextSubmit == User \/ Handler \/ Network

SpecSubmit == InitSubmit /\ [][NextSubmit]_vars

\* TryBlock \/ CatchBlock as a change of position: at "try" and at "catch"
\* they are the only steps, and each of them leaves its position
Decode ==
    /\ pc \in {"try", "catch"}
    /\ pc' \in {"catch", "set"} \ {pc}

\* the statements of handleSubmit run on once they are reached (the key test,
\* the decoding of lines 76-96, the catch and finally blocks), and a pending
\* promise settles
FairSubmit ==
    /\ SpecSubmit
    /\ WF_vars(CheckKey \/ SetGeneratedContent \/ OuterCatch \/ Finally)
    /\ WF_pc(Decode)
    /\ WF_vars(Network)

------------------------------------------------------------------------------
(* Vocabulary of the properties *)

Done == pc = "done"

\* a field of the record handed to setGeneratedContent
Field(k) == Get(generatedContent, k)

Sentinel == Str(NotFound)

HasAllKeys(value) ==
    value.type = "object" /\ \A k \in RequiredKeys : Get(value, k) # Undefined

\* the line is a header of one of the three keyword sets
RecognizedHeader(line) ==
    \E k \in RequiredKeys : isHeader(lower(line), KeywordsOf(k))

Blank(line) == trim(line) = <<>>

RECURSIVE ownClose(_, _, _, _)
\* the index of the brace that closes the brace opened before index i, braces
\* inside string literals not counting (0 if there is none)
ownClose(s, i, depth, inString) ==
    IF i > Len(s) THEN 0
    ELSE IF inString THEN ownClose(s, i + 1, depth, s[i] # QUOTE)
    ELSE IF s[i] = QUOTE THEN ownClose(s, i + 1, depth, TRUE)
    ELSE IF s[i] = LBRACE THEN ownClose(s, i + 1, depth + 1, FALSE)
    ELSE IF s[i] = RBRACE
    THEN (IF depth = 0 THEN i ELSE ownClose(s, i + 1, depth - 1, FALSE))
    ELSE ownClose(s, i + 1, depth, FALSE)

\* a fenced block opens at index i: a fence, an optional json tag, whitespace,
\* a brace, the text up to the brace that closes it, whitespace, a fence
BlockAt(s, i) ==
    /\ s[i] = FENCE
    /\ LET p == braceAfter(s, i) IN
        /\ p <= Len(s)
        /\ s[p] = LBRACE
        /\ LET q == ownClose(s, p + 1, 0, FALSE) IN
            /\ q # 0
            /\ LET r == skipLeft(s, q + 1) IN r <= Len(s) /\ s[r] = FENCE

RECURSIVE BlocksFrom(_, _)
\* the indexes at which the fenced blocks of s open, from index i on; a fence
\* that closes a block does not open the next one
BlocksFrom(s, i) ==
    IF i > Len(s) THEN <<>>
    ELSE IF BlockAt(s, i)
    THEN LET q == ownClose(s, braceAfter(s, i) + 1, 0, FALSE) IN
         <<i>> \o BlocksFrom(s, skipLeft(s, q + 1) + 1)
    ELSE BlocksFrom(s, i + 1)

Blocks(s) == BlocksFrom(s, 1)

\* the inner content of the block that opens at i, brace to brace
Inner(s, i) ==
    LET p == braceAfter(s, i) IN SubSeq(s, p, ownClose(s, p + 1, 0, FALSE))

\* the ways to read s as a reply of three headed sections: the order, header
\* style, body shape and gap for which SectionsText gives s
SectionParams(s) ==
    LET lines == split(s)
        Heads == {h \in Orders \X HeaderStyles : lines[1] = HeaderLine(h[1][1], h[2])}
        Fits(h, gap) ==
            {sh \in BodyShapes :
                /\ Len(lines) = 3 * (1 + Len(sh)) + 2 * gap
                /\ s = SectionsText(h[1], h[2], sh, gap)}
    IN  UNION { { [order |-> h[1], style |-> h[2], shape |-> sh, gap |-> gap] :
                    sh \in Fits(h, gap) } :
                h \in Heads, gap \in 0..MaxGap }

-----------------------------------------------------------------------------
(* Properties *)

\* C1: every reply ends in a record whose three fields are all present and
\* are text: extracted text or the sentinel string.
C1_RecordAlwaysFull ==
    Done => \A k \in RequiredKeys : Field(k) # Undefined /\ Field(k).type = "string"

\* C2: a reply that decodes as a JSON object lacking one of the three keys is
\* a failed decode, and the record is the one the line scanner builds from
\* the same reply.
C2_MissingKeyFallsBack ==
    LET r == tryParse(content) IN
    (Done /\ r.ok /\ r.val.type = "object" /\ ~HasAllKeys(r.val))
        => parseError /\ generatedContent = fallbackRecord(content)

\* C3: a reply that decodes as JSON whose top level is no object (an array,
\* a string, a number, null) is a failed decode, and the record is the one
\* the line scanner builds from the same reply.
C3_NotAnObjectFallsBack ==
    LET r == tryParse(content) IN
    (Done /\ r.ok /\ r.val.type # "object")
        => parseError /\ generatedContent = fallbackRecord(content)

\* C4: when the first fenced block of the reply holds a JSON object with the
\* three keys, the three fields of the record are that object's three
\* values, whatever stands before the fence or after it.
C4_FencedBlockWins ==
    (Done /\ Blocks(content) # <<>>)
        => LET block == JSONparse(Inner(content, Blocks(content)[1])) IN
           (block.ok /\ HasAllKeys(block.val))
               => \A k \in RequiredKeys : Field(k) = Get(block.val, k)

\* C5: when the reply holds more than one fenced block, the text that is
\* decoded is the inner content of the first block, from its opening brace to
\* the brace that closes it.
C5_FirstBlockDecoded ==
    (Done /\ Len(Blocks(content)) > 1)
        => decodedText(content) = Inner(content, Blocks(content)[1])


\* C6: a reply that is, as a whole, a JSON object with the three keys is
\* decoded without the line scanner, and its three fields are the object's
\* values, the same as when the object stands in a fenced block.
C6_UnfencedObjectDecodes ==
    LET whole == JSONparse(content) IN
    (Done /\ whole.ok /\ HasAllKeys(whole.val))
        => /\ ~parseError
           /\ \A k \in RequiredKeys :
                /\ Field(k) = Get(whole.val, k)
                /\ Field(k) = Get(parseModelResponse(Fenced(content, "json")), k)

\* C7: a plain-text reply of three headed sections gives every field the same
\* content in whatever order the sections stand, with blank lines between
\* them or without.
C7_OrderIndependent ==
    Done => \A p \in SectionParams(content), o2 \in Orders, k \in RequiredKeys :
                Field(k) = Get(fallbackRecord(SectionsText(o2, p.style, p.shape, p.gap)), k)

\* the first header line of property k stands at index h, text and a later
\* blank run follow it, and text follows the blank run
BlankRunInside(lines, h) ==
    \E b \in (h + 2)..(Len(lines) - 1) :
        /\ Blank(lines[b])
        /\ \E a \in (h + 1)..(b - 1) : ~Blank(lines[a])
        /\ \E c \in (b + 1)..Len(lines) : ~Blank(lines[c])

\* C8: blank lines inside a section that no recognized header follows do not
\* end the section: where no line after the section's header is a recognized
\* header, the field holds every line after the header.
C8_BlankRunKeptInSection ==
    (Done /\ parseError)
        => LET lines == split(content) IN
           \A k \in RequiredKeys, h \in 1..Len(lines) :
              ( /\ isHeader(lower(lines[h]), KeywordsOf(k))
                /\ \A j \in 1..(h - 1) : ~isHeader(lower(lines[j]), KeywordsOf(k))
                /\ \A j \in (h + 1)..Len(lines) : ~RecognizedHeader(lines[j])
                /\ BlankRunInside(lines, h) )
              => Field(k) = Str(trim(join(SubSeq(lines, h + 1, Len(lines)))))

\* no line of the text holds one of the five keywords, in any case
NoKeyword(s) ==
    \A n \in 1..Len(split(s)), k \in RequiredKeys :
        \A keyword \in KeywordsOf(k) : ~includes(lower(split(s)[n]), keyword)

\* C9: when the reply does not decode and none of its lines holds a keyword,
\* all three fields are the sentinel string.
C9_NoKeywordAllSentinel ==
    (Done /\ parseError /\ NoKeyword(content))
        => \A k \in RequiredKeys : Field(k) = Sentinel

\* C9 witness: an undecodable reply of several lines without a keyword, one
\* of them with a colon, has been run to the end.
C9_Witness ==
    /\ Done
    /\ parseError
    /\ content = join(<< <<"Note", COLON, SP, "Y">>, <<"X">>, <<>>, <<"X">> >>)
    /\ \A k \in RequiredKeys : Field(k) = Sentinel

\* C10: headers with a colon, each followed by body lines and parted from the
\* next header by one blank line or more: every field is the body of its own
\* section, without the blank lines and without a line of another section.
C10_SectionsSeparated ==
    Done => \A p \in SectionParams(content) :
                (p.style = "colon" /\ p.gap >= 1)
                    => \A k \in RequiredKeys : Field(k) = Str(join(BodyLines(k, p.shape)))

\* C10 witness: the reply "Resolution Criteria:", a sentence, a blank line,
\* "Description:", a sentence, a blank line, "Edge Cases:", a sentence has
\* been run to the end.
C10_Witness ==
    /\ Done
    /\ content = SectionsText(KeyOrder, "colon", <<"own">>, 1)
    /\ parseError
    /\ Field(<<"description">>) = Str(<<"This market tracks X.">>)


\* the first header line of property k stands at index h
FirstHeader(lines, k, h) ==
    /\ isHeader(lower(lines[h]), KeywordsOf(k))
    /\ \A j \in 1..(h - 1) : ~isHeader(lower(lines[j]), KeywordsOf(k))

\* the first recognized header after index h stands at index j
NextHeader(lines, h, j) ==
    /\ j > h
    /\ RecognizedHeader(lines[j])
    /\ \A m \in (h + 1)..(j - 1) : ~RecognizedHeader(lines[m])

\* what line 135 makes of collected lines
Finalized(section) ==
    IF trim(join(section)) = <<>> THEN Sentinel ELSE Str(trim(join(section)))

\* the values of a section that opens after line h and ends before line j
EndsBefore(lines, h, j) ==
    {Finalized(SubSeq(lines, h + 1, e)) : e \in h..(j - 1)}

\* C11: a recognized header met while a section is collected ends that
\* section at the header, with no blank line needed before it: the field
\* holds neither the header line nor a line after it.
C11_HeaderEndsSection ==
    (Done /\ parseError)
        => LET lines == split(content) IN
           \A k \in RequiredKeys, h \in 1..Len(lines), j \in 1..Len(lines) :
              ( /\ FirstHeader(lines, k, h)
                /\ NextHeader(lines, h, j)
                /\ \A m \in (h + 1)..(j - 1) : ~Blank(lines[m]) )
              => Field(k) \in EndsBefore(lines, h, j)

\* C12: a run of blank lines followed by a recognized header ends the section
\* that is collected, also when the run stands directly after the section's
\* own header: the field holds no line at or after that header.
C12_BlankRunThenHeaderEndsSection ==
    (Done /\ parseError)
        => LET lines == split(content) IN
           \A k \in RequiredKeys, h \in 1..Len(lines), j \in 1..Len(lines) :
              ( /\ FirstHeader(lines, k, h)
                /\ NextHeader(lines, h, j)
                /\ j > h + 1
                /\ Blank(lines[j - 1]) )
              => Field(k) \in EndsBefore(lines, h, j)


\* C14: a record comes from one component: it is the value the structured
\* decode returned, whole, or each of its three properties is the heuristic
\* extraction of that property from the text; the two are never mixed.
C14_OneProducer ==
    Done =>
        \/ /\ ~parseError
           /\ tryParse(content).ok
           /\ generatedContent = tryParse(content).val
        \/ /\ parseError
           /\ ~tryParse(content).ok
           /\ generatedContent.type = "object"
           /\ Len(generatedContent.v) = Len(KeyOrder)
           /\ \A n \in 1..Len(KeyOrder) :
                /\ generatedContent.v[n].k = KeyOrder[n]
                /\ generatedContent.v[n].val =
                     Str(extractSection(split(content), KeywordsOf(KeyOrder[n])))

\* a decoded object that lacks a property keeps lacking it, although the text
\* has a line the heuristic would take for that property's header
C14_Witness ==
    /\ Done
    /\ ~parseError
    /\ generatedContent.type = "object"
    /\ \E k \in RequiredKeys :
          /\ Field(k) = Undefined
          /\ extractSection(split(content), KeywordsOf(k)) # NotFound
    /\ \E k \in RequiredKeys : Field(k) # Undefined

\* C17: a field the heuristic produced is never empty nor made of whitespace
\* only; a header with nothing but blank lines after it, or with all of its
\* text on the header line, gives the sentinel.
C17_NeverEmpty ==
    (Done /\ parseError)
        => LET lines == split(content) IN
           \A k \in RequiredKeys :
              /\ Field(k).type = "string"
              /\ trim(Field(k).v) # <<>>
              /\ \A h \in 1..Len(lines) :
                    ( /\ FirstHeader(lines, k, h)
                      /\ \A m \in (h + 1)..Len(lines) : Blank(lines[m]) )
                    => Field(k) = Sentinel

C17_Witness ==
    /\ Done
    /\ parseError
    /\ content = join(<< <<"Description", COLON, SP, "X">>, <<>>, <<>> >>)
    /\ Field(<<"description">>) = Sentinel

\* C18: no line that passes the header test of a keyword set is part of the
\* content extracted for that set, a second header of the set met while
\* collecting included; the lines after such a header are still collected.
C18_HeaderNeverContent ==
    (Done /\ parseError)
        => \A k \in RequiredKeys :
              LET out == split(Field(k).v) IN
              \A n \in 1..Len(out) : ~isHeader(lower(out[n]), KeywordsOf(k))

C18_Witness ==
    /\ Done
    /\ parseError
    /\ content = join(<< <<"Description", COLON>>, <<"X">>,
                         <<"Description", COLON, SP, "X">>,
                         <<"In all cases it resolves">> >>)
    /\ Field(<<"description">>)
         = Str(join(<< <<"X">>, <<"In all cases it resolves">> >>))


\* the header test as the text has it: the line holds, in any case of
\* letters, one of the keywords, and it holds ':' or '#'
HeaderTest(line, keywords) ==
    /\ \E n \in 1..Len(line) : KeywordsIn(toLowerCase(line[n])) \cap keywords # {}
    /\ \E n \in 1..Len(line) : line[n] \in {COLON, HASH}

\* C13: while no section is open, a line opens the section of a keyword set
\* exactly when it holds, case-insensitively, a keyword of the set and it
\* holds ':' or '#'.
C13_HeaderTest ==
    [][ (scanPc = "loop" /\ ~scanSt.inSection /\ scanSt' # scanSt)
            => ( scanSt'.inSection
                   <=> HeaderTest(scanLines[scanSt.i + 1], scanKeywords) ) ]_vars

\* a keyword with no mark was passed over, then a capitalised keyword with '#'
\* opened the section
C13_Witness ==
    /\ scanPc = "loop"
    /\ scanKeywords = {"edge", "cases"}
    /\ scanSt.i = 2
    /\ scanLines[1] = <<"In all cases it resolves">>
    /\ scanLines[2] = <<HASH, SP, "Edge Cases">>
    /\ scanSt.inSection
    /\ scanSt.section = <<>>

\* the lines of ls at the indexes of S, in the order of ls
RECURSIVE Pick(_, _, _)
Pick(ls, S, n) ==
    IF n > Len(ls) THEN <<>>
    ELSE (IF n \in S THEN <<ls[n]>> ELSE <<>>) \o Pick(ls, S, n + 1)

\* C15: the collected lines are lines of the text, unchanged and in their
\* order, and the value returned for a section that has content is these
\* lines joined with newlines and trimmed, blank lines inside kept.
C15_JoinedAndTrimmed ==
    /\ \E S \in SUBSET (1..scanSt.i) : scanSt.section = Pick(scanLines, S, 1)
    /\ (scanPc = "returned" /\ scanResult # NotFound)
          => scanResult = trim(join(scanSt.section))

\* a blank line inside the section and one after it
C15_Witness ==
    /\ scanPc = "returned"
    /\ scanLines = << <<"Description", COLON>>, <<"X">>, <<>>,
                      <<"In all cases it resolves">> >>
    /\ scanKeywords = {"description"}
    /\ scanResult = <<"X", NL, NL, "In all cases it resolves">>

\* ENABLED <<NextScan>>_vars in the states of the loop, written out: the loop
\* is left (line 135 follows), or the iteration changes the locals
ScanCanStep ==
    \/ scanSt.stopped
    \/ scanSt.i >= Len(scanLines)
    \/ scanStep(scanLines, scanKeywords, scanSt) # scanSt

\* C16: the scan of a finite sequence of lines comes to its end and returns a
\* value: every iteration moves the index forward or leaves the loop, the
\* index and the lookahead stay within the lines, and as long as no value is
\* returned there is a step to take.
C16_Terminates ==
    /\ [](scanSt.i <= Len(scanLines))
    /\ []((scanPc = "loop" /\ scanSt.i < Len(scanLines))
            => nextNonEmptyFrom(scanLines, scanSt.i + 1) <= Len(scanLines))
    /\ [][ (scanPc = "loop" /\ scanPc' = "loop")
              => (scanSt'.i = scanSt.i + 1 \/ scanSt'.stopped) ]_vars
    /\ [](scanPc = "returned" \/ ScanCanStep)

\* the text ends in a run of blank lines inside a section
C16_Witness ==
    /\ scanPc = "returned"
    /\ scanKeywords = {"description"}
    /\ scanLines = << <<"Description", COLON>>, <<"X">>, <<>>, <<>> >>
    /\ scanSt.i = 4
    /\ scanResult = <<"X">>


\* a call of handleSubmit is made in this step
Invoked == submits' = submits + 1

\* C19: a call of handleSubmit that passes the validation sets loading and
\* clears error and generatedContent before a request is sent; however the
\* call ends, it ends with loading false and with error and generatedContent
\* not both set; with the promises settling, loading becomes false again.
C19_LoadingLifecycle ==
    /\ [][ (Invoked /\ Valid)
              => ( /\ loading'
                   /\ error' = Null
                   /\ generatedContent' = Null
                   /\ fetches' = fetches ) ]_vars
    /\ [][ fetches' # fetches
              => (loading /\ error = Null /\ generatedContent = Null) ]_vars
    /\ [][ (pc # "idle" /\ pc' = "idle")
              => ( /\ ~loading'
                   /\ ~(error' # Null /\ generatedContent' # Null) ) ]_vars
    /\ [](loading <=> pc # "idle")
    /\ (loading ~> ~loading)

\* a response that is not ok has been turned into its error message
C19_Witness ==
    /\ pc = "idle"
    /\ submits = 1
    /\ fetches = 1
    /\ ~loading
    /\ error = Str(<<"Rate limit reached">>)
    /\ generatedContent = Null

\* C20: a call of handleSubmit with a question that is empty or whitespace
\* only, or with no date, sets error to the validation message and changes
\* nothing else: loading and generatedContent keep their values and no
\* request is sent.
C20_ValidationFrame ==
    [][ (Invoked /\ ~Valid)
           => ( /\ error' = Str(ValidationMessage)
                /\ loading' = loading
                /\ generatedContent' = generatedContent
                /\ fetches' = fetches
                /\ question' = question
                /\ resolutionDate' = resolutionDate
                /\ pc' = pc ) ]_vars

\* a record was generated, the question was replaced by a blank and the form
\* was submitted again
C20_Witness ==
    /\ pc = "idle"
    /\ submits = 2
    /\ question = <<SP>>
    /\ error = Str(ValidationMessage)
    /\ generatedContent # Null
    /\ ~loading
    /\ fetches = 1


====
